---- MODULE Spec2Model ----
(***************************************************************************)
(* Model of the Orion pack's base action (actions/lib/actions.py,          *)
(* OrionBaseAction) and of the get_node_id action                          *)
(* (actions/get_node_id.py, GetNodeId).                                    *)
(*                                                                         *)
(* Python values are modelled as follows.  A dict is a function whose      *)
(* DOMAIN is its key set, so a missing key is a KeyError.  None, where a   *)
(* string is expected, is the string None below; an unset field of a node  *)
(* record is the empty tuple Unset and a set field is the one-element      *)
(* tuple <<v>>.  The outcome of a call is a record [kind, exc, val]: a     *)
(* returned value, or the exception that left the call and its arguments.  *)
(* A value kept in the state carries its Python type: <<type, value>>.     *)
(***************************************************************************)
EXTENDS Integers, Sequences, FiniteSets, TLC

\* ---------------------------------------------------------------- bounds

\* Longest result set the query client returns.
MaxRows == 2
\* Most in-progress (status 1) polls modelled in one transfer wait.
MaxPolls == 3

\* ------------------------------------------------------- python values

None == "None"
Unset == <<>>
Some(v) == <<v>>

Return(v) == [kind |-> "return", exc |-> "", val |-> v]
Raise(e, m) == [kind |-> "raise", exc |-> e, val |-> m]

HasKey(d, k) == k \in DOMAIN d

\* Sequences over S of length 0..n.
SeqUpTo(S, n) == UNION {[1..k -> S] : k \in 0..n}

\* ------------------------------------------------------- configuration

Creds(h) == [host |-> h, user |-> "admin", password |-> "secret"]

SnmpMap == [ro |-> "public", rw |-> "private"]

\* config.yaml documents; all hold the "orion" key __init__ requires.
CfgFull ==
    [orion |-> [lab |-> Creds("lab.example"), prod |-> Creds("prod.example")],
     defaults |-> [platform |-> "lab", snmp |-> SnmpMap]]
CfgNoDefaults ==
    [orion |-> [lab |-> Creds("lab.example")]]
CfgNoDefaultPlatform ==
    [orion |-> [lab |-> Creds("lab.example")],
     defaults |-> [snmp |-> SnmpMap]]
CfgDanglingDefault ==
    [orion |-> [lab |-> [host |-> "lab.example", user |-> "admin"]],
     defaults |-> [platform |-> "dr"]]

Configs == {CfgFull, CfgNoDefaults, CfgNoDefaultPlatform, CfgDanglingDefault}

PlatformArgs == {None, "lab", "prod", "dr"}
CommunityArgs == {None, "public", "ro", "secret9"}
PollerArgs == {"primary", "poller2"}
NodeArgs == {"10.0.0.1", "router1"}
MatchTypes == {None, "sysname", "caption"}

\* ----------------------------------------------------------- the state

VARIABLES
    config,     \* self.config
    client,     \* self.client: NoClient, or the SwisClient's (host, user, password)
    pc,         \* "idle", or the position inside get_ncm_transfer_results
    op,         \* the last call started
    arg,        \* its arguments
    outcome,    \* its outcome, Pending while it runs
    queries,    \* the queries it has handed to the client, in order
    replies,    \* what the client answered, in order
    sleeps,     \* the time.sleep calls it has made
    job         \* what a query of the polled transfer's row is answered now

vars == <<config, client, pc, op, arg, outcome, queries, replies, sleeps, job>>

NoClient == <<>>
Pending == [kind |-> "pending", exc |-> "", val |-> None]

\* type(v).__name__ of what the call named returns.
ReturnType(name) ==
    CASE name \in {"connect", "get_snmp_community"} -> "str"
      [] name \in {"get_snmp_cred_id", "get_engine_id"} -> "int"
      [] name = "get_node" -> "OrionNode"
      [] OTHER -> "dict"

\* The outcome out of the call named, as the state keeps it.
Kept(name, out) ==
    [kind |-> out.kind,
     exc |-> out.exc,
     val |-> <<(IF out.kind = "return" THEN ReturnType(name)
                ELSE IF out.kind = "raise" THEN out.exc ELSE "NoneType"),
               out.val>>]

\* ------------------------------------------------------ the query client

\* Result rows of the tables the helpers read.
NodeRows ==
    {[NodeID |-> 11, Uri |-> "swis://n11", IPAddress |-> "10.0.0.1", Caption |-> "router1"],
     [NodeID |-> 12, Uri |-> "swis://n12", IPAddress |-> "10.0.0.2", Caption |-> "router1"]}
CirrusRows == {[NodeID |-> 21], [NodeID |-> 22]}
CredentialRows == {[ID |-> 5], [ID |-> 6]}
EngineRows == {[EngineID |-> 2], [EngineID |-> 3]}

\* What client.query can return when it does not fail: a mapping with a
\* "results" list of at most MaxRows rows, or a mapping without that key.
ReplyData(rows) ==
    {[Message |-> "error"]} \cup {[results |-> rs] : rs \in SeqUpTo(rows, MaxRows)}

\* One answer of the client: a transport failure, or the mapping it returns.
TransportFailure == [fail |-> TRUE, data |-> <<>>]
Answer(data) == [fail |-> FALSE, data |-> data]
Replies(rows) == {TransportFailure} \cup {Answer(d) : d \in ReplyData(rows)}

\* self.query(swql, **kargs): self.client.query, which fails on no client
\* (self.client is None) and on a transport failure.
query(cl, reply) ==
    IF cl = NoClient THEN Raise("AttributeError", <<"NoneType has no attribute query">>)
    ELSE IF reply.fail THEN Raise("TransportError", <<"transport">>)
    ELSE Return(reply.data)

\* d[k], d[k1][k2], d[k1][k2][k3] on dicts: the value or a KeyError.
Subscript(d, k) ==
    IF HasKey(d, k) THEN Return(d[k]) ELSE Raise("KeyError", <<k>>)
Subscript2(d, k1, k2) ==
    IF HasKey(d, k1) THEN Subscript(d[k1], k2) ELSE Raise("KeyError", <<k1>>)
Subscript3(d, k1, k2, k3) ==
    IF HasKey(d, k1) THEN Subscript2(d[k1], k2, k3) ELSE Raise("KeyError", <<k1>>)

\* -------------------------------------------------------------- connect

\* connect, lines 38-43: the default platform; the handler catches IndexError.
connect_platform(cfg, platform) ==
    IF platform = None
    THEN LET r == Subscript2(cfg, "defaults", "platform")
         IN  IF r.kind = "raise" /\ r.exc = "IndexError"
             THEN Raise("ValueError", <<"No default Orion platform.">>)
             ELSE r
    ELSE Return(platform)

\* connect, lines 47-53: SwisClient(host, user, password); KeyError becomes ValueError.
connect_client(cfg, platform) ==
    LET h == Subscript3(cfg, "orion", platform, "host")
        u == Subscript3(cfg, "orion", platform, "user")
        p == Subscript3(cfg, "orion", platform, "password")
        bad == {r \in {h, u, p} : r.kind = "raise"}
    IN  IF bad = {}
        THEN Return(<<h.val, u.val, p.val>>)
        ELSE IF \A r \in bad : r.exc = "KeyError"
             THEN Raise("ValueError", <<"Orion host details not in the config.yaml">>)
             ELSE CHOOSE r \in bad : TRUE

\* connect(platform): the outcome and the client handle afterwards.
connect(cfg, cl, platform) ==
    LET p == connect_platform(cfg, platform)
    IN  IF p.kind = "raise"
        THEN [out |-> p, client |-> cl]
        ELSE LET c == connect_client(cfg, p.val)
             IN  IF c.kind = "raise"
                 THEN [out |-> c, client |-> cl]
                 ELSE [out |-> Return(p.val), client |-> c.val]

\* ------------------------------------------------------- snmp community

\* A faulty get_snmp_community: the standard name is tried before the
\* explicit community.
get_snmp_community_std_first(cfg, community, std_community) ==
    IF std_community # None
    THEN LET r == Subscript3(cfg, "defaults", "snmp", std_community)
         IN  IF r.kind = "raise" /\ r.exc = "KeyError"
             THEN Raise("ValueError", <<"Invalid standard community">>)
             ELSE r
    ELSE IF community # None
         THEN Return(community)
         ELSE Raise("ValueError", <<"Need one of community or std_community">>)

\* get_snmp_community(community, std_community), lines 155-163.
get_snmp_community(cfg, community, std_community) ==
    IF community # None
    THEN Return(community)
    ELSE IF std_community # None
         THEN LET r == Subscript3(cfg, "defaults", "snmp", std_community)
              IN  IF r.kind = "raise" /\ r.exc = "KeyError"
                  THEN Raise("ValueError", <<"Invalid standard community">>)
                  ELSE r
         ELSE Raise("ValueError", <<"Need one of community or std_community">>)

SnmpCredentialsV2 == "SolarWinds.Orion.Core.Models.Credentials.SnmpCredentialsV2"

\* A faulty cred_name: the ValueError of an unknown standard name is not
\* caught.
cred_name_no_fallback(cfg, community) ==
    get_snmp_community(cfg, None, community)

\* get_snmp_cred_id, lines 173-176: the name looked up.
cred_name(cfg, community) ==
    LET r == get_snmp_community(cfg, None, community)
    IN  IF r.kind = "raise" /\ r.exc = "ValueError" THEN Return(community) ELSE r

\* A faulty single_row: the first of several rows is taken.
single_row_first_of_many(data, field, msg) ==
    IF ~HasKey(data, "results")
    THEN Raise("KeyError", <<"results">>)
    ELSE IF Len(data.results) >= 1
         THEN Subscript(data.results[1], field)
         ELSE Raise("ValueError", <<msg>>)

\* len(data['results']) == 1 then data['results'][0][field], else ValueError(msg):
\* the shape shared by get_snmp_cred_id (186-190) and get_engine_id (211-215).
single_row(data, field, msg) ==
    IF ~HasKey(data, "results")
    THEN Raise("KeyError", <<"results">>)
    ELSE IF Len(data.results) = 1
         THEN Subscript(data.results[1], field)
         ELSE Raise("ValueError", <<msg>>)

\* get_snmp_cred_id(community): outcome and the queries made.
get_snmp_cred_id(cfg, cl, community, reply) ==
    LET n == cred_name(cfg, community)
        q == [table |-> "Orion.Credential",
              CredentialType |-> SnmpCredentialsV2,
              name |-> n.val]
        r == query(cl, reply)
    IN  IF n.kind = "raise"
        THEN [out |-> n, queries |-> <<>>, replies |-> <<>>]
        ELSE IF r.kind = "raise"
             THEN [out |-> r, queries |-> <<q>>, replies |-> <<>>]
             ELSE [out |-> single_row(r.val, "ID",
                               "Failed to lookup community in Orion.Credential!"),
                   queries |-> <<q>>, replies |-> <<r.val>>]

\* ------------------------------------------------------------ engine id

PrimaryEngineId == 1

\* get_engine_id(poller), lines 202-215.
get_engine_id(cl, poller, reply) ==
    IF poller = "primary"
    THEN [out |-> Return(PrimaryEngineId), queries |-> <<>>, replies |-> <<>>]
    ELSE LET q == [table |-> "Orion.Engines", where |-> "ServerName", poller |-> poller]
             r == query(cl, reply)
         IN  IF r.kind = "raise"
             THEN [out |-> r, queries |-> <<q>>, replies |-> <<>>]
             ELSE [out |-> single_row(r.val, "EngineID", "Invalid poller name"),
                   queries |-> <<q>>, replies |-> <<r.val>>]

\* ----------------------------------------------------------------- node

IpLiterals == {"10.0.0.1"}

\* lib.utils.is_ip: whether the identifier is an IP literal.
is_ip(node) == node \in IpLiterals

\* lib.node.OrionNode(): a record with every field unset.
OrionNode ==
    [npm_id |-> Unset, uri |-> Unset, ip_address |-> Unset,
     caption |-> Unset, ncm_id |-> Unset]

\* OrionNode.npm: whether the node has a primary identifier.
npm(n) == n.npm_id # Unset

\* get_node, lines 64-72: the primary query.
node_query(node) ==
    [table |-> "Orion.Nodes",
     where |-> IF is_ip(node) THEN "IPAddress" ELSE "Caption",
     query_on |-> node]

\* A faulty node_primary: only three or more rows count as ambiguous.
node_primary_more_than_two(node, data) ==
    IF ~HasKey(data, "results")
    THEN Raise("Exception", <<"No results from Orion", data>>)
    ELSE IF Len(data.results) = 1
         THEN Return([OrionNode EXCEPT
                         !.npm_id = Some(data.results[1].NodeID),
                         !.uri = Some(data.results[1].Uri),
                         !.ip_address = Some(data.results[1].IPAddress),
                         !.caption = Some(data.results[1].Caption)])
         ELSE IF Len(data.results) > 2
              THEN Raise("ValueError", <<"Muliple Nodes match Caption", node>>)
              ELSE Return(OrionNode)

\* get_node, lines 75-93: the record after the primary result.
node_primary(node, data) ==
    IF ~HasKey(data, "results")
    THEN Raise("Exception", <<"No results from Orion", data>>)
    ELSE IF Len(data.results) = 1
         THEN Return([OrionNode EXCEPT
                         !.npm_id = Some(data.results[1].NodeID),
                         !.uri = Some(data.results[1].Uri),
                         !.ip_address = Some(data.results[1].IPAddress),
                         !.caption = Some(data.results[1].Caption)])
         ELSE IF Len(data.results) >= 2
              THEN Raise("ValueError", <<"Muliple Nodes match Caption", node>>)
              ELSE Return(OrionNode)

\* A faulty node_secondary: the first of any number of rows sets ncm_id.
node_secondary_any_rows(n, data) ==
    IF ~HasKey(data, "results")
    THEN n
    ELSE IF Len(data.results) >= 1
         THEN [n EXCEPT !.ncm_id = Some(data.results[1].NodeID)]
         ELSE n

\* get_node, lines 104-111: the record after the secondary result.
node_secondary(n, data) ==
    IF ~HasKey(data, "results")
    THEN n
    ELSE IF Len(data.results) = 1
         THEN [n EXCEPT !.ncm_id = Some(data.results[1].NodeID)]
         ELSE n

\* get_node(node): outcome and the queries made; reply1 and reply2 are the
\* client's answers to the primary and the secondary query.
get_node(cl, node, reply1, reply2) ==
    LET q1 == node_query(node)
        r1 == query(cl, reply1)
        n1 == node_primary(node, r1.val)
        q2 == [table |-> "Cirrus.Nodes", where |-> "CoreNodeID",
               CoreNodeID |-> n1.val.npm_id[1]]
        r2 == query(cl, reply2)
    IN  IF r1.kind = "raise"
        THEN [out |-> r1, queries |-> <<q1>>, replies |-> <<>>]
        ELSE IF n1.kind = "raise"
             THEN [out |-> n1, queries |-> <<q1>>, replies |-> <<r1.val>>]
             ELSE IF ~npm(n1.val)
                  THEN [out |-> n1, queries |-> <<q1>>, replies |-> <<r1.val>>]
                  ELSE IF r2.kind = "raise"
                       THEN [out |-> r2, queries |-> <<q1, q2>>, replies |-> <<r1.val>>]
                       ELSE [out |-> Return(node_secondary(n1.val, r2.val)),
                             queries |-> <<q1, q2>>,
                             replies |-> <<r1.val, r2.val>>]

\* ---------------------------------------------------------- get_node_id

\* The parameters connect requires besides self.
ConnectParams == 1

\* A call of connect with the positional arguments args: Python binds them
\* to the one parameter, platform, or raises TypeError.
call_connect(cfg, cl, args) ==
    IF Len(args) # ConnectParams
    THEN [out |-> Raise("TypeError", <<"connect() takes exactly 2 arguments">>),
          client |-> cl]
    ELSE connect(cfg, cl, args[1])

\* GetNodeId.run, lines 27-31: the query text.
run_query(matchtype, matchstring) ==
    [table |-> "Orion.Nodes",
     where |-> IF matchtype = "sysname" THEN "sysname"
               ELSE IF matchtype = "caption" THEN "Caption" ELSE None,
     value |-> IF matchtype \in {"sysname", "caption"} THEN matchstring ELSE None]

\* GetNodeId.run(matchtype, matchstring): outcome, client and queries made.
\* A failed query leaves orion_data unbound in the handler (line 37).
run(cfg, cl, matchtype, matchstring, reply) ==
    LET c == call_connect(cfg, cl, <<>>)
        q == run_query(matchtype, matchstring)
        r == query(c.client, reply)
    IN  IF c.out.kind = "raise"
        THEN [out |-> c.out, client |-> c.client, queries |-> <<>>, replies |-> <<>>]
        ELSE IF r.kind = "raise"
             THEN [out |-> Raise("UnboundLocalError", <<"orion_data">>),
                   client |-> c.client, queries |-> <<q>>, replies |-> <<>>]
             ELSE [out |-> r, client |-> c.client,
                   queries |-> <<q>>, replies |-> <<r.val>>]

\* ------------------------------------------------------ transfer results

InProgress == 1
Complete == 2
Error == 3
StatusCodes == {InProgress, Complete, Error, 99}

\* A row of NCM.TransferResults with status code s.
TransferRow(s) ==
    [Status |-> s, RequestedScript |-> "show version", RequestedReboot |-> FALSE,
     ErrorMessage |-> IF s = Error THEN "timeout" ELSE "",
     DeviceOutput |-> IF s = Complete THEN "IOS 15.2" ELSE "",
     UserName |-> "admin"]

\* What the platform can answer to a query of the polled transfer id: no
\* row, its row in some status, or a transport failure.
JobStates ==
    {TransportFailure, Answer([results |-> <<>>])}
        \cup {Answer([results |-> <<TransferRow(s)>>]) : s \in StatusCodes}

\* A faulty transfer_step: the elif for status 3 is missing, so an errored
\* transfer falls through to Unknown.
transfer_step_no_error(status) ==
    IF status = InProgress THEN "sleep"
    ELSE IF status = Complete THEN "Complete"
    ELSE "Unknown"

\* get_ncm_transfer_results, lines 236-246: what the loop does on a status.
transfer_step(status) ==
    IF status = InProgress THEN "sleep"
    ELSE IF status = Complete THEN "Complete"
    ELSE IF status = Error THEN "Error"
    ELSE "Unknown"

\* get_ncm_transfer_results, lines 248-254: the record returned.
transfer_record(status, row) ==
    [status |-> status,
     RequestedScript |-> row.RequestedScript,
     RequestedReboot |-> row.RequestedReboot,
     ErrorMessage |-> row.ErrorMessage,
     DeviceOutput |-> row.DeviceOutput,
     UserName |-> row.UserName]

\* A faulty transfer_poll: the loop gives up after two sleeps.
transfer_poll_max_retries(cl, reply) ==
    LET r == query(cl, reply)
    IN  IF r.kind = "raise"
        THEN [out |-> r, replies |-> <<>>]
        ELSE IF ~HasKey(r.val, "results")
        THEN [out |-> Raise("KeyError", <<"results">>), replies |-> <<r.val>>]
        ELSE IF Len(r.val.results) = 0
        THEN [out |-> Raise("IndexError", <<"list index out of range">>),
              replies |-> <<r.val>>]
        ELSE LET row == r.val.results[1]
                 step == transfer_step(row.Status)
             IN  [out |-> IF step = "sleep"
                          THEN (IF sleeps >= 2
                                THEN Raise("RuntimeError", <<"transfer timed out">>)
                                ELSE Pending)
                          ELSE Return(transfer_record(step, row)),
                  replies |-> <<r.val>>]

\* One pass of the loop body, lines 226-246, on the client's reply: the
\* outcome (Pending when the loop goes on to sleep) and what was received.
transfer_poll(cl, reply) ==
    LET r == query(cl, reply)
    IN  IF r.kind = "raise"
        THEN [out |-> r, replies |-> <<>>]
        ELSE IF ~HasKey(r.val, "results")
        THEN [out |-> Raise("KeyError", <<"results">>), replies |-> <<r.val>>]
        ELSE IF Len(r.val.results) = 0
        THEN [out |-> Raise("IndexError", <<"list index out of range">>),
              replies |-> <<r.val>>]
        ELSE LET row == r.val.results[1]
                 step == transfer_step(row.Status)
             IN  [out |-> IF step = "sleep" THEN Pending
                          ELSE Return(transfer_record(step, row)),
                  replies |-> <<r.val>>]

\* ----------------------------------------------------------------- Init

Init ==
    /\ config \in {c \in Configs : HasKey(c, "orion")}
    /\ client = NoClient
    /\ pc = "idle"
    /\ op = "none"
    /\ arg = <<>>
    /\ outcome = Kept("none", Pending)
    /\ queries = <<>>
    /\ replies = <<>>
    /\ sleeps = 0
    /\ job \in JobStates

\* A call that runs to its end in one step: what it leaves behind.
Finished(name, args, r) ==
    /\ op' = name
    /\ arg' = args
    /\ outcome' = Kept(name, r.out)
    /\ queries' = r.queries
    /\ replies' = r.replies
    /\ sleeps' = 0
    /\ pc' = "idle"

\* -------------------------------------------------------------- actions

Connect ==
    /\ pc = "idle"
    /\ \E platform \in PlatformArgs :
          LET r == connect(config, client, platform)
          IN  /\ client' = r.client
              /\ Finished("connect", <<platform>>,
                          [out |-> r.out, queries |-> <<>>, replies |-> <<>>])
    /\ UNCHANGED <<config, job>>

GetSnmpCommunity ==
    /\ pc = "idle"
    /\ \E community \in CommunityArgs, std_community \in CommunityArgs :
          Finished("get_snmp_community", <<community, std_community>>,
                   [out |-> get_snmp_community(config, community, std_community),
                    queries |-> <<>>, replies |-> <<>>])
    /\ UNCHANGED <<config, client, job>>

GetSnmpCredId ==
    /\ pc = "idle"
    /\ \E community \in CommunityArgs, reply \in Replies(CredentialRows) :
          Finished("get_snmp_cred_id", <<community>>,
                   get_snmp_cred_id(config, client, community, reply))
    /\ UNCHANGED <<config, client, job>>

GetEngineId ==
    /\ pc = "idle"
    /\ \E poller \in PollerArgs, reply \in Replies(EngineRows) :
          Finished("get_engine_id", <<poller>>,
                   get_engine_id(client, poller, reply))
    /\ UNCHANGED <<config, client, job>>

GetNode ==
    /\ pc = "idle"
    /\ \E node \in NodeArgs, reply1 \in Replies(NodeRows), reply2 \in Replies(CirrusRows) :
          Finished("get_node", <<node>>,
                   get_node(client, node, reply1, reply2))
    /\ UNCHANGED <<config, client, job>>

Run ==
    /\ pc = "idle"
    /\ \E matchtype \in MatchTypes, matchstring \in {None, "router1"},
          reply \in Replies(NodeRows) :
          LET r == run(config, client, matchtype, matchstring, reply)
          IN  /\ client' = r.client
              /\ Finished("run", <<matchtype, matchstring>>, r)
    /\ UNCHANGED <<config, job>>

\* get_ncm_transfer_results is entered: ts = {} and the loop starts.
GetNcmTransferResults ==
    /\ pc = "idle"
    /\ op' = "get_ncm_transfer_results"
    /\ arg' = <<"transfer-1">>
    /\ outcome' = Kept("get_ncm_transfer_results", Pending)
    /\ queries' = <<>>
    /\ replies' = <<>>
    /\ sleeps' = 0
    /\ pc' = "poll"
    /\ UNCHANGED <<config, client, job>>

\* Lines 226-246: one query of the transfer's row and the branch on its status.
\* In-progress polls are modelled up to MaxPolls per call.
Poll ==
    /\ pc = "poll"
    /\ LET r == transfer_poll(client, job)
       IN  /\ (r.out.kind = "pending") => sleeps < MaxPolls
           /\ queries' = Append(queries, [table |-> "NCM.TransferResults",
                                          transfer_id |-> arg[1]])
           /\ replies' = replies \o r.replies
           /\ outcome' = Kept(op, r.out)
           /\ pc' = IF r.out.kind = "pending" THEN "sleep" ELSE "idle"
    /\ UNCHANGED <<config, client, op, arg, sleeps, job>>

\* Line 237: time.sleep(sleep_delay), then the loop repeats.
Sleep ==
    /\ pc = "sleep"
    /\ sleeps' = sleeps + 1
    /\ pc' = "poll"
    /\ UNCHANGED <<config, client, op, arg, outcome, queries, replies, job>>

\* The platform moves the transfer on, its row appears or goes, or the
\* platform becomes unreachable or reachable again.
JobChange ==
    /\ \E j \in JobStates \ {job} : job' = j
    /\ UNCHANGED <<config, client, pc, op, arg, outcome, queries, replies, sleeps>>

Next ==
    \/ Connect
    \/ GetSnmpCommunity
    \/ GetSnmpCredId
    \/ GetEngineId
    \/ GetNode
    \/ Run
    \/ GetNcmTransferResults
    \/ Poll
    \/ Sleep
    \/ JobChange

Spec == Init /\ [][Next]_vars

\* The loop runs on the calling thread: a poll or a sleep that can run does.
LiveSpec == Spec /\ WF_vars(Poll) /\ WF_vars(Sleep)

\* ------------------------------------------------------------ properties

HasRows(d) == HasKey(d, "results") /\ Len(d.results) >= 1
StatusOf(d) == d.results[1].Status
AllInProgress(rs) ==
    \A i \in 1..Len(rs) : HasRows(rs[i]) /\ StatusOf(rs[i]) = 1
Last(rs) == rs[Len(rs)]
Front(rs) == SubSeq(rs, 1, Len(rs) - 1)
StatusName(s) == IF s = 2 THEN "Complete" ELSE IF s = 3 THEN "Error" ELSE "Unknown"
InTransferCall == op = "get_ncm_transfer_results"
\* The last call returned v, of Python type t; raised e with arguments m.
Returns(t, v) == outcome.kind = "return" /\ outcome.val = <<t, v>>
Raises(e, m) == outcome.kind = "raise" /\ outcome.exc = e /\ outcome.val = <<e, m>>
\* What the last call returned, or the arguments of what it raised.
Result == outcome.val[2]

\* C1: when the polls of a transfer returned status 1 exactly k times and
\* then a status s other than 1, the call has ended by returning a record
\* whose status is Complete for 2, Error for 3 and Unknown otherwise, after
\* exactly k+1 queries and exactly k sleeps; while every poll so far
\* returned 1, there has been one sleep per poll, less the one still due.
C1_PollCounts ==
    InTransferCall =>
        /\ (/\ Len(replies) >= 1
            /\ AllInProgress(Front(replies))
            /\ HasRows(Last(replies))
            /\ StatusOf(Last(replies)) # 1)
           => /\ pc = "idle"
              /\ outcome.kind = "return"
              /\ Result.status = StatusName(StatusOf(Last(replies)))
              /\ Len(queries) = Len(replies)
              /\ sleeps = Len(replies) - 1
        /\ (pc = "poll" /\ AllInProgress(replies))
           => sleeps = Len(replies) /\ Len(queries) = Len(replies)
        /\ (pc = "sleep")
           => /\ AllInProgress(replies)
              /\ sleeps = Len(replies) - 1
              /\ Len(queries) = Len(replies)

\* C1 witness: the polls returned 1, 1, 2 and the call returned Complete
\* after two sleeps.
C1_Witness ==
    /\ InTransferCall
    /\ pc = "idle"
    /\ Len(replies) = 3
    /\ AllInProgress(Front(replies))
    /\ StatusOf(Last(replies)) = 2
    /\ sleeps = 2
    /\ outcome.kind = "return"
    /\ Result.status = "Complete"

\* C2: get_node whose primary query returned 0 rows returns a record with
\* every field unset; with exactly 1 row the record returned carries that
\* row's NodeID, Uri, IPAddress and Caption (the call fails only if the
\* secondary query itself fails); with 2 or more rows it raises ValueError
\* naming the identifier.
C2_PrimaryRows ==
    (op = "get_node" /\ Len(replies) >= 1 /\ HasKey(replies[1], "results")) =>
        LET rows == replies[1].results
        IN  /\ Len(rows) = 0 =>
                /\ outcome.kind = "return"
                /\ \A f \in DOMAIN Result : Result[f] = Unset
            /\ Len(rows) = 1 =>
                IF Len(replies) = 2
                THEN /\ outcome.kind = "return"
                     /\ Result.npm_id = <<rows[1].NodeID>>
                     /\ Result.uri = <<rows[1].Uri>>
                     /\ Result.ip_address = <<rows[1].IPAddress>>
                     /\ Result.caption = <<rows[1].Caption>>
                ELSE outcome.kind = "raise" /\ outcome.exc = "TransportError"
            /\ Len(rows) >= 2 =>
                /\ outcome.kind = "raise"
                /\ outcome.exc = "ValueError"
                /\ Result[2] = arg[1]

\* C2 witness: two rows matched and the call raised the ambiguous-match error.
C2_Witness ==
    /\ op = "get_node"
    /\ Len(replies) = 1
    /\ HasKey(replies[1], "results")
    /\ Len(replies[1].results) = 2
    /\ outcome.kind = "raise"
    /\ outcome.exc = "ValueError"

\* C3: connect either stores a client built from the resolved platform's
\* host, user and password and returns the resolved platform name (the
\* configured default for None), or fails with ValueError.
C3_ConnectOrValueError ==
    op = "connect" =>
        \/ /\ outcome.kind = "return"
           /\ Result = (IF arg[1] = None THEN config.defaults.platform ELSE arg[1])
           /\ client = <<config.orion[Result].host,
                         config.orion[Result].user,
                         config.orion[Result].password>>
        \/ /\ outcome.kind = "raise"
           /\ outcome.exc = "ValueError"

HasStandard(c) ==
    /\ HasKey(config, "defaults")
    /\ HasKey(config.defaults, "snmp")
    /\ HasKey(config.defaults.snmp, c)

\* C4: get_snmp_community returns community when it is not None; else the
\* configuration's defaults.snmp entry for std_community, or ValueError
\* "Invalid standard community" when there is none; with both None it
\* raises ValueError "Need one of community or std_community".  It makes
\* no query.
C4_CommunityPrecedence ==
    op = "get_snmp_community" =>
        /\ queries = <<>>
        /\ arg[1] # None => Returns("str", arg[1])
        /\ (arg[1] = None /\ arg[2] # None) =>
              IF HasStandard(arg[2])
              THEN Returns("str", config.defaults.snmp[arg[2]])
              ELSE Raises("ValueError", <<"Invalid standard community">>)
        /\ (arg[1] = None /\ arg[2] = None) =>
              Raises("ValueError", <<"Need one of community or std_community">>)

\* C4 witness: an explicit community given together with a standard name.
C4_Witness ==
    /\ op = "get_snmp_community"
    /\ arg = <<"secret9", "ro">>
    /\ HasStandard("ro")
    /\ Returns("str", "secret9")

\* C5: get_engine_id("primary") returns 1 without a query, whatever the
\* configuration and the client; any other poller makes exactly one query on
\* Orion.Engines and returns the EngineID of the row when exactly one row
\* matched, and raises ValueError "Invalid poller name" when none or
\* several did.
C5_EngineId ==
    op = "get_engine_id" =>
        IF arg[1] = "primary"
        THEN Returns("int", 1) /\ queries = <<>>
        ELSE /\ Len(queries) = 1
             /\ queries[1].table = "Orion.Engines"
             /\ queries[1].poller = arg[1]
             /\ (Len(replies) = 1 /\ HasKey(replies[1], "results")) =>
                   IF Len(replies[1].results) = 1
                   THEN Returns("int", replies[1].results[1].EngineID)
                   ELSE Raises("ValueError", <<"Invalid poller name">>)

\* C5 witness: several engines matched the poller name.
C5_Witness ==
    /\ op = "get_engine_id"
    /\ arg[1] # "primary"
    /\ Len(replies) = 1
    /\ HasKey(replies[1], "results")
    /\ Len(replies[1].results) = 2
    /\ outcome.kind = "raise"

\* C6: get_snmp_cred_id queries Orion.Credential for the SNMP v2 type and
\* for the configuration's mapping of the input when the input is a
\* configured standard name, and for the input itself otherwise; it returns
\* the ID of the row when exactly one row matched and raises ValueError when
\* none or several did.
C6_CredId ==
    op = "get_snmp_cred_id" =>
        /\ Len(queries) = 1
        /\ queries[1].table = "Orion.Credential"
        /\ queries[1].CredentialType = SnmpCredentialsV2
        /\ queries[1].name = (IF arg[1] # None /\ HasStandard(arg[1])
                              THEN config.defaults.snmp[arg[1]]
                              ELSE arg[1])
        /\ (Len(replies) = 1 /\ HasKey(replies[1], "results")) =>
              IF Len(replies[1].results) = 1
              THEN Returns("int", replies[1].results[1].ID)
              ELSE Raises("ValueError",
                          <<"Failed to lookup community in Orion.Credential!">>)

\* C6 witness: the input is no configured standard name, is looked up as
\* it stands and one credential matches.
C6_Witness ==
    /\ op = "get_snmp_cred_id"
    /\ arg[1] # None
    /\ ~HasStandard(arg[1])
    /\ Len(queries) = 1
    /\ queries[1].name = arg[1]
    /\ outcome.kind = "return"

\* C7: a transfer wait on a connected client ends only by returning after
\* a poll whose status is not 1, or by the client's transport failure.
C7_EndsOnlyTerminalOrTransport ==
    (InTransferCall /\ pc = "idle" /\ client # NoClient) =>
        \/ /\ outcome.kind = "return"
           /\ HasRows(Last(replies))
           /\ StatusOf(Last(replies)) # 1
        \/ /\ outcome.kind = "raise"
           /\ outcome.exc = "TransportError"

\* The transfer's row is there with a status other than 1 and can be read.
Settled == ~job.fail /\ HasRows(job.data) /\ StatusOf(job.data) # 1

Waiting == InTransferCall /\ pc # "idle" /\ client # NoClient
Returned == InTransferCall /\ pc = "idle" /\ outcome.kind = "return"

\* While every answer so far had status 1 the call has not returned; and
\* when every poll made was so answered, it has not ended at all and is
\* about to sleep or to poll again, with one sleep behind it per poll.
StillPolling ==
    (InTransferCall /\ AllInProgress(replies)) =>
        /\ outcome.kind # "return"
        /\ Len(queries) = Len(replies) =>
              /\ pc \in {"sleep", "poll"}
              /\ outcome.kind = "pending"
              /\ sleeps = (IF pc = "sleep" THEN Len(replies) - 1 ELSE Len(replies))

\* C8: while every poll returns status 1 the call does not end, whatever
\* the number of polls: it sleeps and polls again in turn; and a call on a
\* connected client returns once the transfer's status is, and stays, other
\* than 1 and readable.
C8_BlockingUnbounded ==
    /\ []StillPolling
    /\ [](pc = "sleep" => <>(pc = "poll"))
    /\ []((Waiting /\ []Settled) => <>Returned)

\* C8 witness: the call has polled status 1 MaxPolls times, slept after
\* each, and is still polling.
C8_Witness ==
    /\ InTransferCall
    /\ pc = "poll"
    /\ sleeps = MaxPolls
    /\ Len(queries) = MaxPolls
    /\ AllInProgress(replies)
    /\ outcome.kind = "pending"

\* C9: a record get_node returns has ncm_id set only if npm_id is set; the
\* call makes at most two queries, the second one on Cirrus.Nodes and only
\* after the primary query returned exactly one row; a secondary answer
\* never raises, and sets ncm_id exactly when it holds a single row.
C9_SecondaryLookup ==
    op = "get_node" =>
        /\ outcome.kind = "return" =>
              (Result.ncm_id # Unset => Result.npm_id # Unset)
        /\ Len(queries) \in {1, 2}
        /\ queries[1].table = "Orion.Nodes"
        /\ Len(queries) = 2 =>
              /\ queries[2].table = "Cirrus.Nodes"
              /\ Len(replies) >= 1
              /\ HasKey(replies[1], "results")
              /\ Len(replies[1].results) = 1
              /\ queries[2].CoreNodeID = replies[1].results[1].NodeID
        /\ Len(replies) = 2 =>
              /\ outcome.kind = "return"
              /\ IF HasKey(replies[2], "results") /\ Len(replies[2].results) = 1
                 THEN Result.ncm_id = <<replies[2].results[1].NodeID>>
                 ELSE Result.ncm_id = Unset

\* C9 witness: the secondary query returned two rows; the record is
\* returned with npm_id set and ncm_id unset.
C9_Witness ==
    /\ op = "get_node"
    /\ Len(replies) = 2
    /\ HasKey(replies[2], "results")
    /\ Len(replies[2].results) = 2
    /\ outcome.kind = "return"
    /\ Result.npm_id # Unset
    /\ Result.ncm_id = Unset

HasDefaultPlatform ==
    /\ HasKey(config, "defaults")
    /\ HasKey(config.defaults, "platform")
    /\ HasKey(config.orion, config.defaults.platform)
    /\ {"host", "user", "password"} \subseteq DOMAIN config.orion[config.defaults.platform]

\* C10: with a configuration naming a configured default platform,
\* GetNodeId.run connects to it and makes exactly one query on Orion.Nodes,
\* filtered on sysname or caption as matchtype says and unfiltered
\* otherwise; unless the client fails, it returns the client's answer.
C10_RunReturnsQueryResult ==
    (op = "run" /\ HasDefaultPlatform) =>
        /\ client = <<config.orion[config.defaults.platform].host,
                      config.orion[config.defaults.platform].user,
                      config.orion[config.defaults.platform].password>>
        /\ Len(queries) = 1
        /\ queries[1].table = "Orion.Nodes"
        /\ queries[1].where = (IF arg[1] = "sysname" THEN "sysname"
                               ELSE IF arg[1] = "caption" THEN "Caption" ELSE None)
        /\ \/ replies = <<>> /\ outcome.kind = "raise"
           \/ Len(replies) = 1 /\ Returns("dict", replies[1])

====
